---- MODULE Spec2Model ----
(***************************************************************************)
(* The streaming command/response clients that talk to the automation      *)
(* service on port 11451: generate_script.py, run_script.py,               *)
(* gen_and_run.py, test_full_flow.py, test_exclude_live.py and             *)
(* test_ai_agent.py.                                                       *)
(*                                                                         *)
(* Byte strings and decoded texts are sequences of one-character strings.  *)
(* The two bytes "C3" "A9" are the UTF-8 encoding of U+00E9; a byte of     *)
(* that pair standing alone is an invalid sequence.                        *)
(***************************************************************************)
EXTENDS Integers, Sequences, FiniteSets, TLC

VARIABLES
    client,     \* which script is running
    mode,       \* how the peer's bytes are cut into chunks in this run
    sess,       \* number of the current session (connection) of the run
    pc,         \* position of the script
    socks,      \* one record per socket the script has created
    cmd,        \* command line of the current session
    resp,       \* bytes the peer answers with in the current session
    pos,        \* how many of them have been received
    peerClosed, \* the peer has closed its end
    now,        \* time.time(), in ticks since the session's socket was made
    start,      \* the script's start
    sto,        \* the socket's current timeout (settimeout)
    all_data,   \* the script's all_data
    printed,    \* the script's printed / printed_lines set
    events,     \* what the script has surfaced in this session, in order
    iter,       \* number of non-empty reads of this session
    reason,     \* why the read loop ended
    eofReads,   \* recv calls made after a recv has returned b''
    script_id,  \* the script's script_id
    result,     \* what send_command returned, until the script has searched it
    hist        \* history: whether the run records its finished send_command
                \* sessions, and those recorded

vars == <<client, mode, sess, pc, socks, cmd, resp, pos, peerClosed, now,
          start, sto, all_data, printed, events, iter, reason, eofReads,
          script_id, result, hist>>

----------------------------------------------------------------------------
(* Characters *)

Q == "\""
LF == "\n"
CR == "\r"
REPL == "UFFFD"
EACUTE == "U00E9"

\* str.strip / str.rstrip without arguments, and the regex class \s
Whitespace == {" ", LF, CR, "\t"}

\* the whitespace json.loads skips around tokens
JsonWs == {" ", LF, CR, "\t"}

Digits == {"0", "1", "2", "3", "4", "5", "6", "7", "8", "9"}

\* F applied to the value of x, which is computed once
Bind(x, F(_)) == CHOOSE y \in {F(v) : v \in {x}} : TRUE

----------------------------------------------------------------------------
(* Python string operations *)

\* b.decode('utf-8', 'replace'): a lead byte with its continuation byte is
\* one character; a lead byte without one, or a continuation byte without a
\* lead byte, is replaced by U+FFFD
DecodeReplace(b) ==
    LET Unit(i) ==
            IF b[i] = "C3"
            THEN IF i < Len(b) /\ b[i + 1] = "A9" THEN EACUTE ELSE REPL
            ELSE IF b[i] = "A9"
                 THEN IF i > 1 /\ b[i - 1] = "C3" THEN "" ELSE REPL
            ELSE b[i]
    IN  SelectSeq([i \in 1..Len(b) |-> Unit(i)], LAMBDA c : c # "")

\* whether b.decode('utf-8') returns (it raises UnicodeDecodeError otherwise)
ValidUtf8(b) ==
    \A i \in 1..Len(b) :
        /\ b[i] = "C3" => i < Len(b) /\ b[i + 1] = "A9"
        /\ b[i] = "A9" => i > 1 /\ b[i - 1] = "C3"

\* needle in s
Contains(s, needle) ==
    \E i \in 1..(Len(s) - Len(needle) + 1) :
        SubSeq(s, i, i + Len(needle) - 1) = needle

\* s.endswith(suffix)
EndsWith(s, suffix) ==
    /\ Len(s) >= Len(suffix)
    /\ SubSeq(s, Len(s) - Len(suffix) + 1, Len(s)) = suffix

\* s.rstrip()
RStrip(s) ==
    LET keep == {i \in 1..Len(s) : s[i] \notin Whitespace}
    IN  IF keep = {} THEN <<>>
        ELSE SubSeq(s, 1, CHOOSE i \in keep : \A j \in keep : j <= i)

\* s.lstrip()
LStrip(s) ==
    LET keep == {i \in 1..Len(s) : s[i] \notin Whitespace}
    IN  IF keep = {} THEN <<>>
        ELSE SubSeq(s, CHOOSE i \in keep : \A j \in keep : i <= j, Len(s))

\* s.strip()
Strip(s) == LStrip(RStrip(s))

\* s.split('\n'): the pieces between line feeds; one piece, s, when there is none
RECURSIVE SplitLines(_)
SplitLines(s) ==
    LET nl == {i \in 1..Len(s) : s[i] = LF}
    IN  IF nl = {} THEN <<s>>
        ELSE LET i == CHOOSE k \in nl : \A j \in nl : k <= j
             IN  <<SubSeq(s, 1, i - 1)>> \o SplitLines(SubSeq(s, i + 1, Len(s)))

----------------------------------------------------------------------------
(* json.loads, for the JSON the service sends: objects, arrays, strings    *)
(* without escape sequences, integers and the three literals.  A parsed    *)
(* value is [t, s, m]: t its type, s the characters of a string, number or *)
(* literal, m the members of an object (<<key, value>> pairs) or the       *)
(* elements of an array.                                                   *)

NoValue == [t |-> "none", s |-> <<>>, m |-> <<>>]
ParseFail == [ok |-> FALSE, pos |-> 0, val |-> NoValue]
ParseOk(p, v) == [ok |-> TRUE, pos |-> p, val |-> v]

\* the first index at or after i that holds no JSON whitespace
SkipWs(s, i) ==
    CHOOSE j \in i..(Len(s) + 1) :
        /\ j = Len(s) + 1 \/ s[j] \notin JsonWs
        /\ \A k \in i..(j - 1) : s[k] \in JsonWs

At(s, i, c) == i <= Len(s) /\ s[i] = c

\* a string token starting at the quote s[i]
ParseString(s, i) ==
    LET closing == {j \in (i + 1)..Len(s) : s[j] = Q}
    IN  IF ~At(s, i, Q) \/ closing = {} THEN ParseFail
        ELSE LET j == CHOOSE k \in closing : \A l \in closing : k <= l
                 body == SubSeq(s, i + 1, j - 1)
             IN  IF \E k \in 1..Len(body) : body[k] \in {LF, CR, "\t", "\\"}
                 THEN ParseFail
                 ELSE ParseOk(j + 1, [t |-> "str", s |-> body, m |-> <<>>])

\* an integer token starting at s[i]
ParseNumber(s, i) ==
    LET d == IF At(s, i, "-") THEN i + 1 ELSE i
        stop == CHOOSE j \in d..(Len(s) + 1) :
                    /\ j = Len(s) + 1 \/ s[j] \notin Digits
                    /\ \A k \in d..(j - 1) : s[k] \in Digits
        end == IF At(s, d, "0") THEN d + 1 ELSE stop
    IN  IF stop = d THEN ParseFail
        ELSE ParseOk(end, [t |-> "num", s |-> SubSeq(s, i, end - 1), m |-> <<>>])

\* one of the literals true, false, null starting at s[i]
ParseLiteral(s, i) ==
    LET Lit(w) == i + Len(w) - 1 <= Len(s) /\ SubSeq(s, i, i + Len(w) - 1) = w
        t == <<"t", "r", "u", "e">>
        f == <<"f", "a", "l", "s", "e">>
        n == <<"n", "u", "l", "l">>
    IN  IF Lit(t) THEN ParseOk(i + 4, [t |-> "lit", s |-> t, m |-> <<>>])
        ELSE IF Lit(f) THEN ParseOk(i + 5, [t |-> "lit", s |-> f, m |-> <<>>])
        ELSE IF Lit(n) THEN ParseOk(i + 4, [t |-> "lit", s |-> n, m |-> <<>>])
        ELSE ParseFail

RECURSIVE ParseValue(_, _), ParseMembers(_, _, _), ParseElements(_, _, _)

\* the value starting at s[i]
ParseValue(s, i) ==
    IF i > Len(s) THEN ParseFail
    ELSE IF s[i] = Q THEN ParseString(s, i)
    ELSE IF s[i] = "{"
         THEN LET j == SkipWs(s, i + 1)
              IN  IF At(s, j, "}")
                  THEN ParseOk(j + 1, [t |-> "obj", s |-> <<>>, m |-> <<>>])
                  ELSE ParseMembers(s, j, <<>>)
    ELSE IF s[i] = "["
         THEN LET j == SkipWs(s, i + 1)
              IN  IF At(s, j, "]")
                  THEN ParseOk(j + 1, [t |-> "list", s |-> <<>>, m |-> <<>>])
                  ELSE ParseElements(s, j, <<>>)
    ELSE IF s[i] \in Digits \cup {"-"} THEN ParseNumber(s, i)
    ELSE ParseLiteral(s, i)

\* the members of an object from the key at s[i] on; acc holds those before
ParseMembers(s, i, acc) ==
    LET k == ParseString(s, i)
        c == SkipWs(s, k.pos)
        v == ParseValue(s, SkipWs(s, c + 1))
        e == SkipWs(s, v.pos)
        all == Append(acc, <<k.val.s, v.val>>)
    IN  IF ~k.ok THEN ParseFail
        ELSE IF ~At(s, c, ":") THEN ParseFail
        ELSE IF ~v.ok THEN ParseFail
        ELSE IF At(s, e, "}")
             THEN ParseOk(e + 1, [t |-> "obj", s |-> <<>>, m |-> all])
        ELSE IF At(s, e, ",") THEN ParseMembers(s, SkipWs(s, e + 1), all)
        ELSE ParseFail

\* the elements of an array from the value at s[i] on
ParseElements(s, i, acc) ==
    LET v == ParseValue(s, i)
        e == SkipWs(s, v.pos)
        all == Append(acc, v.val)
    IN  IF ~v.ok THEN ParseFail
        ELSE IF At(s, e, "]")
             THEN ParseOk(e + 1, [t |-> "list", s |-> <<>>, m |-> all])
        ELSE IF At(s, e, ",") THEN ParseElements(s, SkipWs(s, e + 1), all)
        ELSE ParseFail

\* json.loads(s): ok is FALSE where it raises
JsonLoads(s) ==
    LET v == ParseValue(s, SkipWs(s, 1))
    IN  IF v.ok /\ SkipWs(s, v.pos) = Len(s) + 1 THEN v ELSE ParseFail

\* key in d, for a dict d
HasKey(d, key) == \E i \in 1..Len(d.m) : d.m[i][1] = key

\* d[key], for a dict d that has the key (the last member of that name)
Lookup(d, key) ==
    LET at == {i \in 1..Len(d.m) : d.m[i][1] = key}
    IN  d.m[CHOOSE i \in at : \A j \in at : j <= i][2]


----------------------------------------------------------------------------
(* String literals of the scripts *)

\* the literals of the completion tests
StatusSuccess ==
    <<Q, "s", "t", "a", "t", "u", "s", Q, ":", Q, "s", "u", "c", "c", "e",
      "s", "s", Q>>

StatusComplete ==
    <<Q, "s", "t", "a", "t", "u", "s", Q, ":", Q, "c", "o", "m", "p", "l",
      "e", "t", "e", Q>>

StatusFailed ==
    <<Q, "s", "t", "a", "t", "u", "s", Q, ":", Q, "f", "a", "i", "l", "e",
      "d", Q>>

StatusCompleteBare ==
    <<"s", "t", "a", "t", "u", "s", Q, ":", Q, "c", "o", "m", "p", "l", "e",
      "t", "e">>

ScriptComplete ==
    <<"S", "C", "R", "I", "P", "T", "_", "C", "O", "M", "P", "L", "E", "T",
      "E">>

ScriptError ==
    <<"S", "C", "R", "I", "P", "T", "_", "E", "R", "R", "O", "R">>

AiGoalComplete ==
    <<"A", "I", "_", "G", "O", "A", "L", "_", "C", "O", "M", "P", "L", "E",
      "T", "E">>

AiGoalError ==
    <<"A", "I", "_", "G", "O", "A", "L", "_", "E", "R", "R", "O", "R">>

\* the keys the scripts look up
KeyLog ==
    <<"l", "o", "g">>

KeyProgress ==
    <<"p", "r", "o", "g", "r", "e", "s", "s">>

KeyStep ==
    <<"s", "t", "e", "p">>

KeyTotal ==
    <<"t", "o", "t", "a", "l">>

KeyDescription ==
    <<"d", "e", "s", "c", "r", "i", "p", "t", "i", "o", "n">>

KeyScriptId ==
    <<"s", "c", "r", "i", "p", "t", "I", "d">>

\* the prefix of the pattern "id":\s*"([^"]+)"
IdPrefix ==
    <<Q, "i", "d", Q, ":">>

\* the command verbs
VerbGenerate ==
    <<"S", "C", "R", "I", "P", "T", "_", "G", "E", "N", "E", "R", "A", "T",
      "E", ":">>

VerbExecuteAuto ==
    <<"S", "C", "R", "I", "P", "T", "_", "E", "X", "E", "C", "U", "T", "E",
      "_", "A", "U", "T", "O", ":">>

VerbRunAiGoal ==
    <<"R", "U", "N", "_", "A", "I", "_", "G", "O", "A", "L", ":">>

----------------------------------------------------------------------------
(* The bodies of the read loops: what each script does with a non-empty    *)
(* chunk.  Each takes the script's variables st = [all_data, printed,      *)
(* events, script_id, iter] and the chunk, and gives their new values and  *)
(* exit: "none" (next iteration), "break", or "return" (the function       *)
(* closed the socket and returned from inside the loop).                   *)

BraceClose == <<"}">>

\* the number of line feeds in s
CountLF(s) == Cardinality({i \in 1..Len(s) : s[i] = LF})

\* s[:n]
Truncate(s, n) == SubSeq(s, 1, IF Len(s) < n THEN Len(s) ELSE n)

\* bool(v) for a parsed value or None
Truthy(v) ==
    CASE v.t = "str" -> v.s # <<>>
      [] v.t = "num" -> v.s \notin {<<"0">>, <<"-", "0">>}
      [] v.t = "lit" -> v.s = <<"t", "r", "u", "e">>
      [] v.t \in {"obj", "list"} -> v.m # <<>>
      [] OTHER -> FALSE

\* str(v) for a parsed value: a string is itself, a number its digits, a
\* literal Python's True, False or None; the other types, which take
\* Python's repr, are shown by their type name
StrOf(v) ==
    CASE v.t \in {"str", "num"} -> v.s
      [] v.t = "lit" /\ v.s = <<"t", "r", "u", "e">> -> <<"T", "r", "u", "e">>
      [] v.t = "lit" /\ v.s = <<"f", "a", "l", "s", "e">> ->
            <<"F", "a", "l", "s", "e">>
      [] v.t = "lit" -> <<"N", "o", "n", "e">>
      [] OTHER -> <<"<", v.t, ">">>

\* One surfaced line: out is what is printed; raw the line it came from,
\* idx its place among the lines of the text scanned, it the read iteration,
\* closed whether the line feed ending that line had arrived.
Surfaced(out, raw, idx, ctx) ==
    [out |-> out, raw |-> raw, idx |-> idx, it |-> ctx.it,
     closed |-> idx <= ctx.nlf]

ScanCtx(text, it) == [it |-> it, nlf |-> CountLF(LStrip(text))]

\* a completion test that leaves out the test for the closing brace
StatusAlone(decoded) ==
    \/ Contains(decoded, StatusSuccess)
    \/ Contains(decoded, StatusComplete)
    \/ Contains(decoded, StatusFailed)

\* gen_and_run.py: the completion test of send_command
IsComplete(decoded) ==
    /\ \/ Contains(decoded, StatusSuccess)
       \/ Contains(decoded, StatusComplete)
       \/ Contains(decoded, StatusFailed)
    /\ EndsWith(RStrip(decoded), BraceClose)

\* test_full_flow.py: the completion test of send_command
FullFlowIsComplete(decoded) ==
    /\ \/ Contains(decoded, StatusSuccess)
       \/ Contains(decoded, StatusComplete)
       \/ Contains(decoded, StatusFailed)
    /\ EndsWith(RStrip(decoded), BraceClose)

\* run_script.py: its completion test
RunScriptIsComplete(decoded) ==
    /\ \/ Contains(decoded, StatusComplete)
       \/ Contains(decoded, StatusSuccess)
    /\ EndsWith(RStrip(decoded), BraceClose)

\* generate_script.py: its completion test
GenerateScriptIsComplete(decoded) ==
    \/ Contains(decoded, StatusSuccess)
    \/ Contains(decoded, StatusFailed)

\* gen_and_run.py send_command, the body of "if chunk:"
GenAndRunBody(st, chunk) ==
    [st EXCEPT !.all_data = st.all_data \o chunk,
               !.exit = IF IsComplete(DecodeReplace(st.all_data \o chunk))
                        THEN "break" ELSE "none"]

\* generate_script.py, the body of "if chunk:"
GenerateScriptBody(st, chunk) ==
    [st EXCEPT !.all_data = st.all_data \o chunk,
               !.exit = IF GenerateScriptIsComplete(
                                DecodeReplace(st.all_data \o chunk))
                        THEN "break" ELSE "none"]

\* test_full_flow.py: what the try block prints for the parsed line r
\* (nothing where an exception is raised and passed over)
FullFlowPrint(r) ==
    IF ~r.ok \/ r.val.t # "obj" THEN <<>>
    ELSE IF HasKey(r.val, KeyLog)
         THEN IF Lookup(r.val, KeyLog).t = "str"
              THEN << <<"LOG", Lookup(r.val, KeyLog).s>> >>
              ELSE <<>>
    ELSE IF HasKey(r.val, KeyProgress)
         THEN Bind(Lookup(r.val, KeyProgress), LAMBDA p :
                IF /\ p.t = "obj"
                   /\ HasKey(p, KeyStep)
                   /\ HasKey(p, KeyTotal)
                   /\ HasKey(p, KeyDescription)
                   /\ Lookup(p, KeyDescription).t = "str"
                THEN << <<"PROGRESS", StrOf(Lookup(p, KeyStep)),
                          StrOf(Lookup(p, KeyTotal)),
                          Lookup(p, KeyDescription).s>> >>
                ELSE <<>>)
    ELSE <<>>

\* test_full_flow.py: what the try block prints for one line
FullFlowEvent(line) == FullFlowPrint(JsonLoads(line))

\* test_full_flow.py: the body of "for line in lines" for line i
FullFlowLine(lines, i, pr, ev, ctx) ==
    IF lines[i] # <<>> /\ lines[i] \notin pr
    THEN [printed |-> pr \cup {lines[i]},
          events |-> Bind(FullFlowEvent(lines[i]), LAMBDA out :
                        IF out = <<>> THEN ev
                        ELSE Append(ev, Surfaced(out[1], lines[i], i, ctx)))]
    ELSE [printed |-> pr, events |-> ev]

\* test_full_flow.py: "for line in lines", from line i on
RECURSIVE FullFlowScan(_, _, _, _, _)
FullFlowScan(lines, i, pr, ev, ctx) ==
    IF i > Len(lines) THEN [printed |-> pr, events |-> ev]
    ELSE Bind(FullFlowLine(lines, i, pr, ev, ctx), LAMBDA s :
            FullFlowScan(lines, i + 1, s.printed, s.events, ctx))

\* test_full_flow.py send_command, the body of "if chunk:"
FullFlowBody(st, chunk) ==
    Bind(DecodeReplace(st.all_data \o chunk), LAMBDA decoded :
      Bind(FullFlowScan(SplitLines(Strip(decoded)), 1, st.printed, st.events,
                        ScanCtx(decoded, st.iter + 1)), LAMBDA scan :
        [st EXCEPT !.all_data = st.all_data \o chunk,
                   !.printed = scan.printed,
                   !.events = scan.events,
                   !.exit = IF FullFlowIsComplete(decoded)
                            THEN "break" ELSE "none"]))

\* run_script.py: the body of "for line in lines" for line i
RunScriptLine(lines, i, pr, ev, ctx) ==
    IF lines[i] # <<>> /\ lines[i] \notin pr
    THEN [printed |-> pr \cup {lines[i]},
          events |-> Append(ev, Surfaced(<<"LINE", lines[i]>>, lines[i], i, ctx))]
    ELSE [printed |-> pr, events |-> ev]

\* run_script.py: "for line in lines", from line i on
RECURSIVE RunScriptScan(_, _, _, _, _)
RunScriptScan(lines, i, pr, ev, ctx) ==
    IF i > Len(lines) THEN [printed |-> pr, events |-> ev]
    ELSE Bind(RunScriptLine(lines, i, pr, ev, ctx), LAMBDA s :
            RunScriptScan(lines, i + 1, s.printed, s.events, ctx))

\* run_script.py, the body of "if chunk:"
RunScriptBody(st, chunk) ==
    Bind(DecodeReplace(st.all_data \o chunk), LAMBDA decoded :
      Bind(RunScriptScan(SplitLines(Strip(decoded)), 1, st.printed, st.events,
                         ScanCtx(decoded, st.iter + 1)), LAMBDA scan :
        [st EXCEPT !.all_data = st.all_data \o chunk,
                   !.printed = scan.printed,
                   !.events = scan.events,
                   !.exit = IF RunScriptIsComplete(decoded)
                            THEN "break" ELSE "none"]))

\* the first index of lines whose line contains needle, 0 when there is none
FirstLineWith(lines, needle) ==
    LET at == {i \in 1..Len(lines) : Contains(lines[i], needle)}
    IN  IF at = {} THEN 0 ELSE CHOOSE i \in at : \A j \in at : i <= j

\* test_exclude_live.py test_generate: what the try block leaves in script_id
\* once json.loads has returned r for the first line that holds 'scriptId';
\* the bare except leaves script_id as it was when json.loads or .get raises
ExcludeGenerateGet(script, r) ==
    IF ~r.ok \/ r.val.t # "obj" THEN script
    ELSE IF HasKey(r.val, KeyScriptId) THEN Lookup(r.val, KeyScriptId)
    ELSE NoValue

\* test_exclude_live.py test_generate: the inner try block; the bare except
\* also passes over the UnicodeDecodeError of decode
ExcludeGenerateTry(script, all) ==
    IF ~ValidUtf8(all) THEN script
    ELSE Bind(SplitLines(Strip(DecodeReplace(all))), LAMBDA lines :
           Bind(FirstLineWith(lines, KeyScriptId), LAMBDA i :
             IF i = 0 THEN script
             ELSE ExcludeGenerateGet(script, JsonLoads(lines[i]))))

\* test_exclude_live.py test_generate, the body of "if chunk:"
ExcludeGenerateBody(st, chunk) ==
    Bind(ExcludeGenerateTry(st.script_id, st.all_data \o chunk), LAMBDA script :
        [st EXCEPT !.all_data = st.all_data \o chunk,
                   !.script_id = script,
                   !.exit = IF Truthy(script) THEN "break" ELSE "none"])

\* test_ai_agent.py test_script_generate: what the try block does once
\* json.loads has returned r for the whole text
AgentGenerateParsed(st, r) ==
    IF ~r.ok THEN st
    ELSE [st EXCEPT !.script_id = IF HasKey(r.val, KeyScriptId)
                                  THEN Lookup(r.val, KeyScriptId)
                                  ELSE st.script_id,
                    !.exit = "break"]

\* test_ai_agent.py test_script_generate, the body of "if chunk:"
AgentGenerateBody(st, chunk) ==
    Bind(st.all_data \o chunk, LAMBDA all :
      Bind(DecodeReplace(all), LAMBDA text :
        IF ValidUtf8(all) /\ EndsWith(Strip(text), BraceClose)
        THEN AgentGenerateParsed([st EXCEPT !.all_data = all], JsonLoads(text))
        ELSE [st EXCEPT !.all_data = all]))

\* the execute loops of the test scripts: "for line in text.strip().split",
\* from line i on; hit says that a line held one of the needles
RECURSIVE SentinelScan(_, _, _, _, _, _)
SentinelScan(lines, i, ev, needles, width, ctx) ==
    IF i > Len(lines) THEN [events |-> ev, hit |-> FALSE]
    ELSE IF lines[i] = <<>>
         THEN SentinelScan(lines, i + 1, ev, needles, width, ctx)
    ELSE IF \E n \in needles : Contains(lines[i], n)
         THEN [events |-> Append(ev, Surfaced(<<"LINE", Truncate(lines[i], width)>>,
                                              lines[i], i, ctx)),
               hit |-> TRUE]
    ELSE SentinelScan(lines, i + 1,
                      Append(ev, Surfaced(<<"LINE", Truncate(lines[i], width)>>,
                                          lines[i], i, ctx)),
                      needles, width, ctx)

\* the body of "if data:" of an execute loop; it scans the chunk alone
SentinelBody(st, chunk, needles, width) ==
    Bind(DecodeReplace(chunk), LAMBDA text :
      Bind(SentinelScan(SplitLines(Strip(text)), 1, st.events, needles,
                        width, ScanCtx(text, st.iter + 1)), LAMBDA scan :
        [st EXCEPT !.events = scan.events,
                   !.exit = IF scan.hit THEN "return" ELSE "none"]))

\* the widths the execute loops cut a printed line to
ExecLineWidth == 300
GoalLineWidth == 400

\* test_ai_agent.py test_script_execute, the body of "if data:"
AgentExecuteBody(st, chunk) ==
    SentinelBody(st, chunk, {ScriptComplete, ScriptError}, ExecLineWidth)

\* test_exclude_live.py test_execute, the body of "if data:"
ExcludeExecuteBody(st, chunk) ==
    SentinelBody(st, chunk, {StatusCompleteBare, ScriptError}, ExecLineWidth)

\* test_ai_agent.py test_run_ai_goal, the body of "if data:"
AgentGoalBody(st, chunk) ==
    SentinelBody(st, chunk, {AiGoalComplete, AiGoalError}, GoalLineWidth)

----------------------------------------------------------------------------
(* The scripts *)

Clients ==
    {"gen_and_run", "test_full_flow", "generate_script", "run_script",
     "exclude_generate", "exclude_execute",
     "agent_generate", "agent_execute", "agent_goal"}

\* the scripts that call send_command twice: generate, then execute
FlowClients == {"gen_and_run", "test_full_flow"}

\* the body of the read loop of each script
Body(c, st, chunk) ==
    CASE c = "gen_and_run" -> GenAndRunBody(st, chunk)
      [] c = "test_full_flow" -> FullFlowBody(st, chunk)
      [] c = "generate_script" -> GenerateScriptBody(st, chunk)
      [] c = "run_script" -> RunScriptBody(st, chunk)
      [] c = "exclude_generate" -> ExcludeGenerateBody(st, chunk)
      [] c = "exclude_execute" -> ExcludeExecuteBody(st, chunk)
      [] c = "agent_generate" -> AgentGenerateBody(st, chunk)
      [] c = "agent_execute" -> AgentExecuteBody(st, chunk)
      [] c = "agent_goal" -> AgentGoalBody(st, chunk)

\* the scripts whose loop has "else: break" for an empty chunk
BreaksOnEmpty(c) ==
    c \in {"gen_and_run", "test_full_flow", "generate_script", "run_script"}

\* the scripts whose loop leaves on socket.timeout ("break", or a bare except)
BreaksOnTimeout(c) ==
    c \in {"gen_and_run", "test_full_flow", "generate_script"}


----------------------------------------------------------------------------
(* The peer.  The service answers a command with one of these byte        *)
(* strings, cut into chunks as the mode of the run says, and may stall,   *)
(* close or reset the connection at any point.                            *)

\* the streamed execution of the end-to-end scenario: a log line, a progress
\* line, the terminal object
RespScenario ==
    <<"{", Q, "l", "o", "g", Q, ":", Q, "a", Q, "}", LF, "{", Q, "p", "r",
      "o", "g", "r", "e", "s", "s", Q, ":", "{", Q, "s", "t", "e", "p",
      Q, ":", "1", ",", Q, "t", "o", "t", "a", "l", Q, ":", "2", ",", Q,
      "d", "e", "s", "c", "r", "i", "p", "t", "i", "o", "n", Q, ":", Q,
      "t", Q, "}", "}", LF, "{", Q, "s", "t", "a", "t", "u", "s", Q, ":",
      Q, "c", "o", "m", "p", "l", "e", "t", "e", Q, "}">>

\* log lines ended by CR LF
RespCrlf ==
    <<"{", Q, "l", "o", "g", Q, ":", Q, "a", Q, "}", CR, LF, "{", Q, "l",
      "o", "g", Q, ":", Q, "b", Q, "}", CR, LF, "{", Q, "s", "t", "a",
      "t", "u", "s", Q, ":", Q, "c", "o", "m", "p", "l", "e", "t", "e",
      Q, "}">>

\* the same log line sent twice
RespRepeat ==
    <<"{", Q, "l", "o", "g", Q, ":", Q, "a", Q, "}", LF, "{", Q, "l", "o",
      "g", Q, ":", Q, "a", Q, "}", LF, "{", Q, "s", "t", "a", "t", "u",
      "s", Q, ":", Q, "c", "o", "m", "p", "l", "e", "t", "e", Q, "}">>

\* a generation result that names the script "scriptId"
RespScriptId ==
    <<"{", Q, "s", "c", "r", "i", "p", "t", "I", "d", Q, ":", Q, "s", "1", Q,
      ",", Q, "s", "t", "a", "t", "u", "s", Q, ":", Q, "s", "u", "c",
      "c", "e", "s", "s", Q, "}">>

\* a generation result that names the script "id"
RespId ==
    <<"{", Q, "i", "d", Q, ":", Q, "s", "1", Q, ",", Q, "s", "t", "a", "t",
      "u", "s", Q, ":", Q, "s", "u", "c", "c", "e", "s", "s", Q, "}">>

\* a terminal object with a nested object after its status
RespNested ==
    <<"{", Q, "s", "t", "a", "t", "u", "s", Q, ":", Q, "s", "u", "c", "c",
      "e", "s", "s", Q, ",", Q, "d", "a", "t", "a", Q, ":", "{", Q, "n",
      Q, ":", "1", "}", ",", Q, "i", "d", Q, ":", Q, "s", "1", Q, "}">>

\* a remote failure
RespFailed ==
    <<"{", Q, "s", "t", "a", "t", "u", "s", Q, ":", Q, "f", "a", "i", "l",
      "e", "d", Q, ",", Q, "e", "r", "r", "o", "r", Q, ":", Q, "x", Q,
      "}">>

\* a terminal object written with a space after the colon
RespSpaced ==
    <<"{", Q, "s", "t", "a", "t", "u", "s", Q, ":", " ", Q, "s", "u", "c",
      "c", "e", "s", "s", Q, "}">>

\* a stream ended by a sentinel line
RespSentinel ==
    <<"o", "k", LF, "S", "C", "R", "I", "P", "T", "_", "C", "O", "M", "P",
      "L", "E", "T", "E", LF>>

\* a log line with a two-byte character
RespUtf8 ==
    <<"{", Q, "l", "o", "g", Q, ":", Q, "C3", "A9", Q, "}", LF, "{", Q, "s",
      "t", "a", "t", "u", "s", Q, ":", Q, "c", "o", "m", "p", "l", "e",
      "t", "e", Q, "}">>

\* a generation result that follows a log line
RespLines ==
    <<"{", Q, "l", "o", "g", Q, ":", Q, "a", Q, "}", LF, "{", Q, "s", "c",
      "r", "i", "p", "t", "I", "d", Q, ":", Q, "s", "1", Q, ",", Q, "s",
      "t", "a", "t", "u", "s", Q, ":", Q, "s", "u", "c", "c", "e", "s",
      "s", Q, "}">>

\* a goal run ended by its sentinel line
RespGoal ==
    <<"A", "I", "_", "G", "O", "A", "L", "_", "C", "O", "M", "P", "L", "E",
      "T", "E", LF>>

\* nothing at all
RespEmpty ==
    <<>>

Responses ==
    {RespScenario, RespCrlf, RespRepeat, RespScriptId,
     RespId, RespNested, RespFailed, RespSpaced,
     RespSentinel, RespUtf8, RespLines, RespGoal, RespEmpty}

\* "byte": one byte per read; "whole": all that is left in one read;
\* "cuts": a read ends after a closing brace, a comma or a line end
Modes == {"byte", "whole", "cuts"}

CutChars == {"}", ",", LF, CR}

\* the bufsize of recv
SmallRecv == 4096
LargeRecv == 16384

RecvSize(c) ==
    IF c \in {"gen_and_run", "test_full_flow", "generate_script", "run_script"}
    THEN SmallRecv ELSE LargeRecv

\* where the next chunk may end when p bytes of r have been received
NextCuts(m, c, r, p) ==
    LET most == IF Len(r) - p < RecvSize(c) THEN Len(r) ELSE p + RecvSize(c)
    IN  CASE m = "byte" -> {p + 1}
          [] m = "whole" -> {most}
          [] m = "cuts" -> {q \in (p + 1)..most : q = most \/ r[q] \in CutChars}

----------------------------------------------------------------------------
(* Time.  A tick stands for the shortest wait of the scripts; the waits    *)
(* keep their order: the per-read timeouts of the test scripts (5 to 15 s) *)
(* are below the generation deadlines (60 to 120 s), which are below the   *)
(* execution deadlines (180 to 300 s).                                     *)

ShortWait == 1
GenWait == 2
ExecWait == 3

\* the timeout argument of send_command, and the limit of the other loops
Deadline(c, n) ==
    CASE c \in FlowClients -> IF n = 1 THEN GenWait ELSE ExecWait
      [] c \in {"generate_script", "exclude_generate", "agent_generate"} -> GenWait
      [] OTHER -> ExecWait

\* the settimeout before connect
SetupTimeout(c, n) ==
    CASE c \in FlowClients -> IF n = 1 THEN GenWait ELSE ExecWait
      [] c = "generate_script" -> GenWait
      [] OTHER -> ExecWait

\* the settimeout inside the loop of the test scripts; the others keep theirs
LoopTimeout(c, old) ==
    IF c \in {"exclude_generate", "exclude_execute", "agent_generate",
              "agent_execute", "agent_goal"}
    THEN ShortWait ELSE old

\* Where the peer may stall, close or reset: between any two chunks, except
\* that a run that delivers one byte per read has it do so only before the
\* first or after the last byte
MayFault(m, r, p) == m = "byte" => p \in {0, Len(r)}

\* How long a recv with timeout w may wait for data: any time below w,
\* except that a run that delivers one byte per read delivers them back to
\* back
Delays(m, w) == IF m = "byte" THEN {0} ELSE 0..(w - 1)

\* how often the model counts a recv after the peer has closed
MaxEofReads == 2

----------------------------------------------------------------------------
(* Commands and the script identifier *)

\* the goal text of the generation commands, shortened
Goal == <<"g", "o", "a", "l">>

\* the identifier written into run_script.py, shortened
RunScriptId == <<"8", "4", "c", "c">>

\* a str as a value
Str(s) == [t |-> "str", s |-> s, m |-> <<>>]

\* sys.argv of the execute modes of the test scripts: no identifier or an
\* empty one, or the identifier s1
ArgvIds(c) ==
    CASE c = "exclude_execute" -> {NoValue, Str(<<"s", "1">>)}
      [] c = "agent_execute" -> {Str(<<>>), Str(<<"s", "1">>)}
      [] OTHER -> {NoValue}

\* text.encode('utf-8'), by halves
RECURSIVE Encode(_)
Encode(s) ==
    IF s = <<>> THEN <<>>
    ELSE IF Len(s) = 1
         THEN IF s[1] = EACUTE THEN <<"C3", "A9">>
              ELSE IF s[1] = REPL THEN <<"EF", "BF", "BD">>
              ELSE s
    ELSE Encode(SubSeq(s, 1, Len(s) \div 2))
             \o Encode(SubSeq(s, Len(s) \div 2 + 1, Len(s)))

\* a command line that leaves the identifier out
CommandWithoutId(c, n, script) ==
    CASE c \in FlowClients /\ n = 2 -> VerbExecuteAuto \o <<LF>>
      [] c \in {"exclude_execute", "agent_execute"} -> VerbExecuteAuto \o <<LF>>
      [] c = "run_script" -> VerbExecuteAuto \o RunScriptId \o <<LF>>
      [] c = "agent_goal" -> VerbRunAiGoal \o Goal \o <<LF>>
      [] OTHER -> VerbGenerate \o Goal \o <<LF>>

\* the command line of session n, as text
Command(c, n, script) ==
    CASE c \in FlowClients /\ n = 2 -> VerbExecuteAuto \o script.s \o <<LF>>
      [] c \in {"exclude_execute", "agent_execute"} ->
            VerbExecuteAuto \o StrOf(script) \o <<LF>>
      [] c = "run_script" -> VerbExecuteAuto \o RunScriptId \o <<LF>>
      [] c = "agent_goal" -> VerbRunAiGoal \o Goal \o <<LF>>
      [] OTHER -> VerbGenerate \o Goal \o <<LF>>

\* re.search(r'"id":\s*"([^"]+)"', text): found, and group(1) of the
\* leftmost match
IdMatchAt(text, i) ==
    LET j == CHOOSE k \in (i + Len(IdPrefix))..(Len(text) + 1) :
                 /\ k = Len(text) + 1 \/ text[k] \notin Whitespace
                 /\ \A l \in (i + Len(IdPrefix))..(k - 1) : text[l] \in Whitespace
        closing == {k \in (j + 1)..Len(text) : text[k] = Q}
        e == CHOOSE k \in closing : \A l \in closing : k <= l
    IN  IF /\ i + Len(IdPrefix) - 1 <= Len(text)
           /\ SubSeq(text, i, i + Len(IdPrefix) - 1) = IdPrefix
           /\ At(text, j, Q)
           /\ closing # {}
           /\ e > j + 1
        THEN [found |-> TRUE, group |-> SubSeq(text, j + 1, e - 1)]
        ELSE [found |-> FALSE, group |-> <<>>]

IdSearch(text) ==
    LET at == {i \in 1..Len(text) : IdMatchAt(text, i).found}
    IN  IF at = {} THEN [found |-> FALSE, group |-> <<>>]
        ELSE IdMatchAt(text, CHOOSE i \in at : \A j \in at : i <= j)


----------------------------------------------------------------------------
(* What the generate-then-execute scripts print after a session *)

\* the prefixes of the patterns "error":\s*"([^"]*)" and
\* "comments":\s*\[([^\]]*)\]
ErrorPrefix ==
    <<Q, "e", "r", "r", "o", "r", Q, ":">>

CommentsPrefix ==
    <<Q, "c", "o", "m", "m", "e", "n", "t", "s", Q, ":">>

\* the literals of the success test
SuccessSpaced ==
    <<Q, "s", "u", "c", "c", "e", "s", "s", Q, ":", " ", "t", "r", "u", "e">>

SuccessTight ==
    <<Q, "s", "u", "c", "c", "e", "s", "s", Q, ":", "t", "r", "u", "e">>

\* a match at i of: prefix, \s*, the character open, a group of any
\* characters but close (it may be empty), the character close
FieldMatchAt(text, i, prefix, open, close) ==
    LET j == CHOOSE k \in (i + Len(prefix))..(Len(text) + 1) :
                 /\ k = Len(text) + 1 \/ text[k] \notin Whitespace
                 /\ \A l \in (i + Len(prefix))..(k - 1) : text[l] \in Whitespace
        closing == {k \in (j + 1)..Len(text) : text[k] = close}
        e == CHOOSE k \in closing : \A l \in closing : k <= l
    IN  IF /\ i + Len(prefix) - 1 <= Len(text)
           /\ SubSeq(text, i, i + Len(prefix) - 1) = prefix
           /\ At(text, j, open)
           /\ closing # {}
        THEN [found |-> TRUE, group |-> SubSeq(text, j + 1, e - 1)]
        ELSE [found |-> FALSE, group |-> <<>>]

\* re.search of such a pattern: the leftmost match
FieldSearch(text, prefix, open, close) ==
    LET at == {i \in 1..Len(text) :
                    FieldMatchAt(text, i, prefix, open, close).found}
    IN  IF at = {} THEN [found |-> FALSE, group |-> <<>>]
        ELSE FieldMatchAt(text, CHOOSE i \in at : \A j \in at : i <= j,
                          prefix, open, close)

\* the width the comments are cut to
CommentsWidth == 200

\* test_full_flow.py: what is printed about the execution result
FullFlowInterpret(exec_result) ==
    IF Contains(exec_result, SuccessSpaced) \/ Contains(exec_result, SuccessTight)
    THEN << <<"EXECUTED">> >> \o
         Bind(FieldSearch(exec_result, CommentsPrefix, "[", "]"), LAMBDA m :
            IF ~m.found THEN <<>>
            ELSE IF Strip(m.group) # <<>>
                 THEN << <<"COMMENTS", Truncate(m.group, CommentsWidth)>> >>
                 ELSE << <<"NO_COMMENTS">> >>) \o
         << <<"STATUS", "ok">> >>
    ELSE << <<"NOT_EXECUTED">> >> \o
         Bind(FieldSearch(exec_result, ErrorPrefix, Q, Q), LAMBDA m :
            IF m.found THEN << <<"ERROR", m.group>> >> ELSE <<>>) \o
         << <<"STATUS", "improve">> >>

\* test_full_flow.py: what the script has printed about the session that
\* returned text, once it has ended in session n
FullFlowReport(n, text) ==
    IF n = 1 THEN << <<"GENERATION_FAILED">> >>
    ELSE FullFlowInterpret(text)

\* gen_and_run.py: what the script has printed about the session that
\* returned text, once it has ended in session n: the generation result
\* and the failure line, or the lines of the execution result that are not
\* blank
GenAndRunReport(n, text) ==
    IF n = 1 THEN << <<"RESULT", text>>, <<"NO_SCRIPT_ID">> >>
    ELSE Bind(SplitLines(text), LAMBDA lines :
            [k \in 1..Len(SelectSeq(lines, LAMBDA l : Strip(l) # <<>>)) |->
                <<"LINE", SelectSeq(lines, LAMBDA l : Strip(l) # <<>>)[k]>>])

----------------------------------------------------------------------------
(* The state machine *)

ExecuteClients == {"exclude_execute", "agent_execute"}

\* the scripts that set script_id = None before their loop
GenerateTests == {"exclude_generate", "agent_generate"}

NewSocket == [state |-> "created", closes |-> 0, sent |-> <<>>]

Init ==
    /\ client \in Clients
    /\ mode \in Modes
    /\ sess = 1
    /\ pc = "socket"
    /\ socks = <<>>
    /\ cmd = <<>>
    /\ resp = <<>>
    /\ pos = 0
    /\ peerClosed = FALSE
    /\ now = 0
    /\ start = 0
    /\ sto = 0
    /\ all_data = <<>>
    /\ printed = {}
    /\ events = <<>>
    /\ iter = 0
    /\ reason = "none"
    /\ eofReads = 0
    /\ script_id \in ArgvIds(client)
    /\ result = <<>>
    /\ hist = [on |-> FALSE, log |-> <<>>]

\* a return without s.close(): the sockets stay as they are
LeftOpen(ss) == ss

\* s.close() on the socket of the current session
Closed(ss) ==
    [ss EXCEPT ![Len(ss)] = [@ EXCEPT !.state = "closed", !.closes = @ + 1]]

\* s = socket.socket(); s.settimeout(...); before them, in test_script_execute
\* and test_execute, "if not script_id: return"
CreateSocket ==
    /\ pc = "socket"
    /\ IF client \in ExecuteClients /\ ~Truthy(script_id)
       THEN /\ pc' = "exit"
            /\ UNCHANGED <<socks, sto, cmd, now>>
       ELSE /\ socks' = Append(socks, NewSocket)
            /\ sto' = SetupTimeout(client, sess)
            /\ cmd' = Command(client, sess, script_id)
            /\ now' = 0
            /\ pc' = "connect"
    /\ UNCHANGED <<client, mode, sess, resp, pos, peerClosed, start, all_data,
                   printed, events, iter, reason, eofReads, script_id, result,
                   hist>>

\* s.connect(...) returns; the peer has its answer ready
Connect ==
    /\ pc = "connect"
    /\ socks' = [socks EXCEPT ![Len(socks)].state = "connected"]
    /\ resp' \in Responses
    /\ pos' = 0
    /\ peerClosed' = FALSE
    /\ pc' = "send"
    /\ UNCHANGED <<client, mode, sess, cmd, now, start, sto, all_data, printed,
                   events, iter, reason, eofReads, script_id, result, hist>>

\* s.connect(...) raises (refused, timed out): no script catches it
ConnectFail ==
    /\ pc = "connect"
    /\ pc' = "raised"
    /\ reason' = "connect"
    /\ UNCHANGED <<client, mode, sess, socks, cmd, resp, pos, peerClosed, now,
                   start, sto, all_data, printed, events, iter, eofReads,
                   script_id, result, hist>>

\* s.sendall(...), then the initialisation before the loop
Send ==
    /\ pc = "send"
    /\ socks' = [socks EXCEPT ![Len(socks)].sent = Append(@, Encode(cmd))]
    /\ all_data' = <<>>
    /\ start' = now
    /\ printed' = {}
    /\ events' = <<>>
    /\ iter' = 0
    /\ eofReads' = 0
    /\ reason' = "none"
    /\ script_id' = IF client \in GenerateTests THEN NoValue ELSE script_id
    /\ pc' = "loop"
    /\ UNCHANGED <<client, mode, sess, cmd, resp, pos, peerClosed, now, sto,
                   result, hist>>

\* s.sendall(...) raises (broken pipe): no script catches it
SendFail ==
    /\ pc = "send"
    /\ pc' = "raised"
    /\ reason' = "send"
    /\ UNCHANGED <<client, mode, sess, socks, cmd, resp, pos, peerClosed, now,
                   start, sto, all_data, printed, events, iter, eofReads,
                   script_id, result, hist>>

\* while time.time() - start < limit, and the settimeout that opens the
\* try block of the test scripts
LoopTest ==
    /\ pc = "loop"
    /\ IF now - start < Deadline(client, sess)
       THEN /\ pc' = "recv"
            /\ sto' = LoopTimeout(client, sto)
            /\ UNCHANGED reason
       ELSE /\ pc' = "close"
            /\ reason' = "deadline"
            /\ UNCHANGED sto
    /\ UNCHANGED <<client, mode, sess, socks, cmd, resp, pos, peerClosed, now,
                   start, all_data, printed, events, iter, eofReads, script_id,
                   result, hist>>

\* a loop body whose "s.close(); return" lacks the return
AfterBodyGoesOn(exit) ==
    IF exit = "break" THEN "close" ELSE "loop"

\* where the script is after the body of "if chunk:": at the loop test, at
\* the s.close() after the loop, or returned
AfterBody(exit) ==
    CASE exit = "none" -> "loop"
      [] exit = "break" -> "close"
      [] exit = "return" -> "exit"

\* recv returns a non-empty chunk after waiting d ticks
RecvData ==
    /\ pc = "recv"
    /\ ~peerClosed
    /\ pos < Len(resp)
    /\ \E q \in NextCuts(mode, client, resp, pos) :
        \E new \in {Body(client,
                         [all_data |-> all_data, printed |-> printed,
                          events |-> events, script_id |-> script_id,
                          iter |-> iter, exit |-> "none"],
                         SubSeq(resp, pos + 1, q))} :
            /\ pos' = q
            /\ \E d \in Delays(mode, sto) : now' = now + d
            /\ all_data' = new.all_data
            /\ printed' = new.printed
            /\ events' = new.events
            /\ script_id' = new.script_id
            /\ iter' = iter + 1
            /\ pc' = AfterBody(new.exit)
            /\ reason' = CASE new.exit = "none" -> reason
                           [] new.exit = "break" -> "complete"
                           [] new.exit = "return" -> "sentinel"
            /\ socks' = IF new.exit = "return" THEN Closed(socks) ELSE socks
    /\ UNCHANGED <<client, mode, sess, cmd, resp, peerClosed, start, sto,
                   eofReads, result, hist>>

\* recv returns b'': the peer closes after d ticks, or has closed already
RecvEmpty ==
    /\ pc = "recv"
    /\ peerClosed \/ MayFault(mode, resp, pos)
    /\ \E d \in 0..(sto - 1) :
        /\ peerClosed => d <= 1
        /\ now' = now + d
    /\ peerClosed' = TRUE
    /\ eofReads' = IF peerClosed /\ eofReads < MaxEofReads
                   THEN eofReads + 1 ELSE eofReads
    /\ IF BreaksOnEmpty(client)
       THEN pc' = "close" /\ reason' = "closed"
       ELSE pc' = "loop" /\ UNCHANGED reason
    /\ UNCHANGED <<client, mode, sess, socks, cmd, resp, pos, start, sto,
                   all_data, printed, events, iter, script_id, result, hist>>

\* recv raises socket.timeout after the socket's timeout
RecvTimeout ==
    /\ pc = "recv"
    /\ ~peerClosed
    /\ MayFault(mode, resp, pos)
    /\ now' = now + sto
    /\ IF BreaksOnTimeout(client)
       THEN pc' = "close" /\ reason' = "timeout"
       ELSE pc' = "loop" /\ UNCHANGED reason
    /\ UNCHANGED <<client, mode, sess, socks, cmd, resp, pos, peerClosed,
                   start, sto, all_data, printed, events, iter, eofReads,
                   script_id, result, hist>>

\* recv raises another exception (connection reset): every loop breaks
RecvError ==
    /\ pc = "recv"
    /\ ~peerClosed
    /\ MayFault(mode, resp, pos)
    /\ peerClosed' = TRUE
    /\ pc' = "close"
    /\ reason' = "error"
    /\ UNCHANGED <<client, mode, sess, socks, cmd, resp, pos, now, start, sto,
                   all_data, printed, events, iter, eofReads, script_id,
                   result, hist>>

\* a return that drops what was received
ReturnedNothing(data) == <<>>

\* what send_command returns
Returned(data) == DecodeReplace(data)

\* s.close() after the loop, and the return of send_command
Close ==
    /\ pc = "close"
    /\ socks' = Closed(socks)
    /\ IF client \in FlowClients
       THEN /\ result' = Returned(all_data)
            /\ hist' = IF hist.on
                       THEN [hist EXCEPT !.log =
                                Append(@, [bytes |-> all_data,
                                           reason |-> reason,
                                           result |-> Returned(all_data)])]
                       ELSE hist
            /\ pc' = IF sess = 1 THEN "extract" ELSE "exit"
       ELSE /\ pc' = "exit"
            /\ UNCHANGED <<result, hist>>
    /\ UNCHANGED <<client, mode, sess, cmd, resp, pos, peerClosed, now, start,
                   sto, all_data, printed, events, iter, reason, eofReads,
                   script_id>>

\* gen_and_run.py, test_full_flow.py: the search for the script id in the
\* generation result; the execution session follows a match
Extract ==
    /\ pc = "extract"
    /\ LET m == IdSearch(result)
       IN  IF m.found
           THEN /\ script_id' = Str(m.group)
                /\ sess' = 2
                /\ pc' = "socket"
           ELSE /\ pc' = "exit"
                /\ UNCHANGED <<script_id, sess>>
    /\ result' = <<>>
    /\ UNCHANGED <<client, mode, socks, cmd, resp, pos, peerClosed, now, start,
                   sto, all_data, printed, events, iter, reason, eofReads,
                   hist>>

Next ==
    \/ CreateSocket
    \/ Connect
    \/ ConnectFail
    \/ Send
    \/ SendFail
    \/ LoopTest
    \/ RecvData
    \/ RecvEmpty
    \/ RecvTimeout
    \/ RecvError
    \/ Close
    \/ Extract

Spec == Init /\ [][Next]_vars

\* The generate-then-execute scripts, with the history of their sessions
InitFlow ==
    /\ client \in FlowClients
    /\ mode = "cuts"
    /\ sess = 1
    /\ pc = "socket"
    /\ socks = <<>>
    /\ cmd = <<>>
    /\ resp = <<>>
    /\ pos = 0
    /\ peerClosed = FALSE
    /\ now = 0
    /\ start = 0
    /\ sto = 0
    /\ all_data = <<>>
    /\ printed = {}
    /\ events = <<>>
    /\ iter = 0
    /\ reason = "none"
    /\ eofReads = 0
    /\ script_id = NoValue
    /\ result = <<>>
    /\ hist = [on |-> TRUE, log |-> <<>>]

SpecFlow == InitFlow /\ [][Next]_vars

----------------------------------------------------------------------------
(* Properties *)

\* the text decoded from the bytes received in the current session
Received == DecodeReplace(SubSeq(resp, 1, pos))

\* a terminal status keyword is in the text
HasStatus(text) ==
    \E w \in {StatusSuccess, StatusComplete, StatusFailed} : Contains(text, w)

\* the last character of the text that is not whitespace is a closing brace
ClosesWithBrace(text) ==
    \E i \in 1..Len(text) :
        /\ text[i] = "}"
        /\ \A j \in (i + 1)..Len(text) : text[j] \in Whitespace

\* C1: in send_command of gen_and_run.py and test_full_flow.py the loop
\* stops as complete after a non-empty read if and only if the decoded
\* buffer holds a terminal status keyword and, trimmed of trailing
\* whitespace, ends with a closing brace; a buffer that holds the keyword
\* but does not end with the brace does not stop the loop.
C1_CompleteIffStatusAndBrace ==
    client \in FlowClients =>
        /\ (pc = "close" /\ reason = "complete") =>
                HasStatus(DecodeReplace(all_data))
                    /\ ClosesWithBrace(DecodeReplace(all_data))
        /\ (pc \in {"loop", "recv"} /\ iter > 0) =>
                ~(HasStatus(DecodeReplace(all_data))
                    /\ ClosesWithBrace(DecodeReplace(all_data)))

\* C1: the keyword has arrived, the closing brace has not, and the loop of
\* send_command goes on reading
C1_StatusWithoutBraceGoesOn ==
    /\ client \in FlowClients
    /\ pc = "recv"
    /\ iter > 0
    /\ HasStatus(DecodeReplace(all_data))
    /\ ~ClosesWithBrace(DecodeReplace(all_data))

\* opening braces less closing braces (no response has a brace in a string)
Depth(text) ==
    Cardinality({i \in 1..Len(text) : text[i] = "{"})
        - Cardinality({i \in 1..Len(text) : text[i] = "}"})

\* the loop has ended on a match of a terminal status keyword
StatusExit ==
    \/ client \in {"generate_script", "gen_and_run"} /\ reason = "complete"
    \/ /\ client = "exclude_execute"
       /\ reason = "sentinel"
       /\ Contains(events[Len(events)].raw, StatusCompleteBare)

\* C2: when the loop of generate_script.py, of send_command of
\* gen_and_run.py or of test_execute ends on a status match, the bytes
\* received so far leave no object of the peer unclosed.
C2_StatusExitOnlyWhenClosed ==
    StatusExit => Depth(Received) = 0

\* C3: when a script has ended, each socket it created has been closed
\* exactly once.
C3_ClosedExactlyOnce ==
    pc \in {"exit", "raised"} =>
        \A i \in 1..Len(socks) : socks[i].closes = 1

\* C4: a session has left its read loop no later than its deadline after
\* the loop started.
C4_LoopEndsByDeadline ==
    pc \in {"loop", "close", "extract", "exit"} =>
        now - start <= Deadline(client, sess)

\* C5: once recv has returned b'' the loop is left: no script calls recv
\* again on that socket.
C5_EmptyReadEndsLoop ==
    peerClosed => pc # "recv"

\* how the read loop ended, as the three outcomes of the result
Outcome(r) ==
    CASE r = "complete" -> "Completed"
      [] r = "closed" -> "ClosedEarly"
      [] r \in {"timeout", "deadline"} -> "TimedOut"
      [] OTHER -> "Error"

\* C6: two send_command sessions that received the same bytes and ended
\* in different ones of the three ways returned different results.
C6_ResultTellsOutcome ==
    \A i, j \in 1..Len(hist.log) :
        /\ hist.log[i].bytes = hist.log[j].bytes
        /\ Outcome(hist.log[i].reason) # Outcome(hist.log[j].reason)
        /\ Outcome(hist.log[i].reason) # "Error"
        /\ Outcome(hist.log[j].reason) # "Error"
        => hist.log[i].result # hist.log[j].result

\* what was printed, without the bookkeeping of the model
Outs(ev) == [i \in 1..Len(ev) |-> ev[i].out]

\* the variables of a read loop before its first read
FreshLoop ==
    [all_data |-> <<>>, printed |-> {}, events |-> <<>>,
     script_id |-> NoValue, iter |-> 0, exit |-> "none"]

\* C7: when send_command of test_full_flow.py has read a response one
\* byte at a time, it has printed the LOG and PROGRESS lines that it prints
\* when the response arrives as a single chunk.
C7_ChunkingInvariance ==
    /\ client = "test_full_flow"
    /\ mode = "byte"
    /\ pc = "close"
    /\ reason = "complete" \/ pos = Len(resp)
    => Outs(events) = Outs(FullFlowBody(FreshLoop, resp).events)

\* C8: in run_script.py and in send_command of test_full_flow.py a line
\* that was surfaced after its line end had arrived is not surfaced again
\* in a later read iteration.
C8_NoLineSurfacedTwice ==
    client \in {"run_script", "test_full_flow"} =>
        \A i, j \in 1..Len(events) :
            ~ /\ events[i].idx = events[j].idx
              /\ events[i].closed
              /\ events[i].it < events[j].it

\* the LOG and PROGRESS lines of the responses that are log and progress
\* lines followed by a terminal status object
SentLines(r) ==
    CASE r = RespScenario ->
            << <<"LOG", <<"a">>>>, <<"PROGRESS", <<"1">>, <<"2">>, <<"t">>>> >>
      [] r = RespCrlf -> << <<"LOG", <<"a">>>>, <<"LOG", <<"b">>>> >>
      [] r = RespRepeat -> << <<"LOG", <<"a">>>>, <<"LOG", <<"a">>>> >>
      [] r = RespUtf8 -> << <<"LOG", <<EACUTE>>>> >>

\* C9: when send_command of test_full_flow.py declares such a response
\* complete, it has printed one line for each log or progress line the
\* peer sent, in the peer's order, and no other.
C9_OneEventPerLine ==
    /\ client = "test_full_flow"
    /\ resp \in {RespScenario, RespCrlf, RespRepeat, RespUtf8}
    /\ pc = "close"
    /\ reason = "complete"
    => Outs(events) = SentLines(resp)

\* C10: a generation response that completes and names the script s1,
\* under "id" or under "scriptId", gives the caller the identifier s1.
C10_IdFromEitherField ==
    /\ client \in FlowClients \cup {"agent_generate"}
    /\ resp \in {RespId, RespScriptId}
    /\ reason = "complete"
    /\ \/ pc = "exit" /\ sess = 1
       \/ pc = "socket" /\ sess = 2
    => script_id = Str(<<"s", "1">>)

\* the generation session of the run has ended and its caller has looked
\* for the identifier
GenerationDone ==
    \/ client \in GenerateTests /\ pc = "exit"
    \/ /\ client \in FlowClients
       /\ \/ pc = "exit" /\ sess = 1
          \/ pc = "socket" /\ sess = 2

\* the identifier field, naming the script s1, under the name the script
\* reads
OwnIdField(c) ==
    IF c \in FlowClients
    THEN <<Q, "i", "d", Q, ":", Q, "s", "1", Q>>
    ELSE <<Q, "s", "c", "r", "i", "p", "t", "I", "d", Q, ":", Q, "s", "1", Q>>

\* the text is one well-formed JSON object
WellFormedObject(text) ==
    JsonLoads(text).ok /\ JsonLoads(text).val.t = "obj"

\* C11: when the bytes received in a generation session are not one
\* well-formed JSON object (several lines, or a truncated object) but hold
\* the identifier field the script reads, the caller has the identifier s1
\* at the end of the session.
C11_FallbackFindsId ==
    /\ GenerationDone
    /\ ~WellFormedObject(Received)
    /\ Contains(Received, OwnIdField(client))
    => script_id = Str(<<"s", "1">>)

\* C12: a session in which connect or sendall raised has closed its socket
\* before the exception reached the caller, and a send_command session
\* whose recv failed with a connection error or a timeout gave its caller
\* a result that no session without such an error gave.
C12_ErrorsClosedAndReported ==
    /\ pc = "raised" => socks[Len(socks)].closes = 1
    /\ \A i, j \in 1..Len(hist.log) :
        /\ hist.log[i].reason \in {"error", "timeout"}
        /\ hist.log[j].reason \in {"complete", "closed"}
        => hist.log[i].result # hist.log[j].result

\* C13: in gen_and_run.py and test_full_flow.py at most one socket is not
\* closed at any time, every socket but the newest is closed, and no socket
\* has carried more than one command.
C13_OneConnectionAtATime ==
    client \in FlowClients =>
        /\ Cardinality({i \in 1..Len(socks) : socks[i].state # "closed"}) <= 1
        /\ \A i \in 1..(Len(socks) - 1) : socks[i].state = "closed"
        /\ \A i \in 1..Len(socks) : Len(socks[i].sent) <= 1

\* C13: the execution session is connected on its own socket, after the
\* generation session's socket was closed
C13_SecondSessionConnected ==
    /\ client \in FlowClients
    /\ sess = 2
    /\ Len(socks) = 2
    /\ socks[1].state = "closed"
    /\ socks[2].state = "connected"
    /\ Len(socks[2].sent) = 1

\* C14: sendall is called on a connected socket that has carried no
\* command and delivered no byte; recv is called only on a connected,
\* unclosed socket that has carried exactly one command; and a closed
\* socket has carried exactly one command.
C14_OneCommandPerConnection ==
    /\ pc = "send" =>
        /\ socks[Len(socks)].state = "connected"
        /\ socks[Len(socks)].sent = <<>>
        /\ pos = 0
    /\ pc \in {"loop", "recv"} =>
        /\ socks[Len(socks)].state = "connected"
        /\ socks[Len(socks)].closes = 0
        /\ Len(socks[Len(socks)].sent) = 1
    /\ \A i \in 1..Len(socks) :
        socks[i].state = "closed" => Len(socks[i].sent) = 1

\* C14: test_script_execute has closed its socket inside the loop, on a
\* sentinel line, and returned
C14_ClosedInsideLoop ==
    /\ client = "agent_execute"
    /\ pc = "exit"
    /\ reason = "sentinel"
    /\ socks[1].state = "closed"
    /\ Len(socks[1].sent) = 1

\* what a generate-then-execute script has printed about its last session
FlowReport ==
    IF client = "test_full_flow"
    THEN FullFlowReport(sess, DecodeReplace(all_data))
    ELSE GenAndRunReport(sess, DecodeReplace(all_data))

\* the printed item gives the message x of the remote failure: as the
\* extracted error, or within a printed line or result
TellsMessageX(item) ==
    \/ item[1] = "ERROR" /\ item[2] = <<"x">>
    \/ /\ item[1] \in {"LINE", "RESULT"}
       /\ Contains(item[2], ErrorPrefix \o <<Q, "x", Q>>)

\* C15: when the peer has sent the whole object
\* {"status":"failed","error":"x"} and a generate-then-execute script has
\* ended, the session ended through the completion match and the script
\* has printed the message x.
C15_FailedObjectReported ==
    /\ client \in FlowClients
    /\ pc = "exit"
    /\ resp = RespFailed
    /\ pos = Len(resp)
    => /\ reason = "complete"
       /\ \E k \in 1..Len(FlowReport) : TellsMessageX(FlowReport[k])

\* C16: when send_command of gen_and_run.py or test_full_flow.py, or
\* run_script.py, has received the whole closed object
\* {"status": "success"}, written with a space after the colon, its loop
\* has ended through the completion match.
C16_SpaceAfterColonCompletes ==
    /\ client \in {"gen_and_run", "test_full_flow", "run_script"}
    /\ resp = RespSpaced
    /\ pos = Len(resp)
    => reason = "complete"

\* C17: while a script is in its read loop, the buffer it scans holds all
\* the bytes received so far on the connection, in arrival order (a script
\* that keeps no buffer and scans each chunk alone has the empty buffer).
C17_BufferIsAllReceived ==
    pc \in {"loop", "recv", "close"} => all_data = SubSeq(resp, 1, pos)

\* C18: when the loop of send_command ended by a read timeout or by the
\* deadline, send_command has returned the decoding of all the bytes
\* received in the session, the empty text when none arrived.
C18_TimeoutReturnsAllReceived ==
    /\ client \in FlowClients
    /\ reason \in {"timeout", "deadline"}
    /\ pc = "extract" \/ (pc = "exit" /\ sess = 2)
    => result = DecodeReplace(SubSeq(resp, 1, pos))

\* C18: send_command has returned after a read timeout that followed
\* partial data
C18_TimeoutAfterPartialData ==
    /\ client \in FlowClients
    /\ reason = "timeout"
    /\ pc = "extract"
    /\ 0 < pos
    /\ pos < Len(resp)
    /\ result # <<>>

\* the sentinels that end the loop of a test function
SentinelsOf(c) ==
    IF c = "agent_execute" THEN {ScriptComplete, ScriptError}
    ELSE {AiGoalComplete, AiGoalError}

\* the text holds a whole line, ended by its line feed, with one of the
\* needles in it
HasWholeLineWith(text, needles) ==
    \E i \in 1..(Len(SplitLines(text)) - 1) :
        \E n \in needles : Contains(SplitLines(text)[i], n)

\* C19: once test_script_execute or test_run_ai_goal has received a whole
\* line that holds one of its sentinels, however the bytes were split
\* across reads, it has closed the socket and returned.
C19_SentinelLineEndsSession ==
    /\ client \in {"agent_execute", "agent_goal"}
    /\ HasWholeLineWith(Received, SentinelsOf(client))
    => pc = "exit" /\ reason = "sentinel"

\* the lines of the peer's whole stream, without the whitespace around them
PeerLines(r) ==
    {Strip(SplitLines(DecodeReplace(r))[i]) :
        i \in 1..Len(SplitLines(DecodeReplace(r)))}

\* C20: every line that run_script.py or send_command of test_full_flow.py
\* has surfaced parses as JSON and is a whole line of the peer's stream,
\* not the beginning of one, and no line of the stream was surfaced twice.
C20_OnlyWholeJsonLines ==
    client \in {"run_script", "test_full_flow"} =>
        \A k \in 1..Len(events) :
            /\ JsonLoads(events[k].raw).ok
            /\ Strip(events[k].raw) \in PeerLines(resp)
            /\ \A j \in 1..(k - 1) : events[j].idx # events[k].idx

\* the line is a SCRIPT_EXECUTE_AUTO command
IsExecCommand(line) ==
    /\ Len(line) > Len(VerbExecuteAuto)
    /\ SubSeq(line, 1, Len(VerbExecuteAuto)) = VerbExecuteAuto
    /\ line[Len(line)] = LF

\* what such a command carries between the verb and the line feed
ExecPayload(line) == SubSeq(line, Len(VerbExecuteAuto) + 1, Len(line) - 1)

\* the text names the non-empty identifier id in an "id" field
YieldsId(text, id) ==
    /\ id # <<>>
    /\ \A k \in 1..Len(id) : id[k] # Q
    /\ \E w \in {<<>>, <<" ">>} :
        Contains(text, IdPrefix \o w \o <<Q>> \o id \o <<Q>>)

====
